---- MODULE Spec2Model ----
(***************************************************************************)
(* Model of scl::vector<T, N> (src/scl.hpp), instantiated at the element   *)
(* type T = i8 (the lane type of i8x8 ... i8x64).  A behaviour draws the   *)
(* lane count and two operand vectors, then applies one library operation  *)
(* to them and records what it returned.                                   *)
(*                                                                         *)
(* Lanes are indexed from 0 as in the source.  Arithmetic on i8 lanes is   *)
(* done in int after integral promotion and narrowed back to i8 on the     *)
(* store, so every +, -, * and every non-zero division is reduced modulo   *)
(* 2^Bits.  Division by zero and reads outside the N lanes are undefined   *)
(* behaviour; the model takes every outcome the build can produce for      *)
(* them (a trap, or some value), never a single one.                       *)
(***************************************************************************)
EXTENDS Integers, Sequences, FiniteSets, TLC

VARIABLES N, a, b, pc, op, index, indices, scalar, target, th, result,
          c, list, reads, word, arg

vars == <<N, a, b, pc, op, index, indices, scalar, target, th, result,
          c, list, reads, word, arg>>

(* ---------------------------------------------------------------------- *)
(* Bounds of the exploration                                               *)
(* ---------------------------------------------------------------------- *)

\* Largest lane count whose operands are enumerated exhaustively.
MaxN == 2

\* How far past the last lane an index input may point.
MaxOver == 1

(* ---------------------------------------------------------------------- *)
(* Element type                                                            *)
(* ---------------------------------------------------------------------- *)

\* Width of i8 in bits.
Bits == 8

Modulus == 2 ^ Bits

TMin == -(Modulus \div 2)

TMax == (Modulus \div 2) - 1

T == TMin..TMax

\* Lane values the operands are drawn from: both extremes of i8, a negative
\* value, zero and a small positive value.
LaneValues == {TMin, -1, 0, 3, TMax}

\* Bit patterns standing for memory the program never wrote.
Indeterminate == {0, -1}

\* Conversion of an int value to i8 on a store (modulo 2^Bits).
narrow(x) == ((x - TMin) % Modulus) + TMin

\* C++ integer division truncates toward zero; \div floors.
magnitude(x) == IF x < 0 THEN -x ELSE x

trunc_div(x, y) ==
    LET q == magnitude(x) \div magnitude(y)
    IN IF (x < 0) # (y < 0) THEN -q ELSE q

Lanes == 0..(N - 1)

\* A default-constructed vector that exposes one lane more than N.
default_vector_padded == [i \in 0..N |-> 0]

\* A default-constructed vector: its lanes are indeterminate until written.
\* Every loop below writes all N lanes of its local before the local is
\* read, so the content chosen here never reaches a result.
default_vector == [i \in Lanes |-> 0]

(* ---------------------------------------------------------------------- *)
(* Values an operation hands back                                          *)
(* ---------------------------------------------------------------------- *)

NoVec == [i \in {} |-> 0]

\* vector<T, N> returned by value.
VecResult(v) == [kind |-> "vector", vec |-> v, val |-> 0, hi |-> 0, flag |-> FALSE]

\* T returned by value.
ScalarResult(x) == [kind |-> "scalar", vec |-> NoVec, val |-> x, hi |-> 0, flag |-> FALSE]

\* bool returned by value.
BoolResult(f) == [kind |-> "bool", vec |-> NoVec, val |-> 0, hi |-> 0, flag |-> f]

\* std::array<T, N> returned by value.
ArrayResult(v) == [kind |-> "array", vec |-> v, val |-> 0, hi |-> 0, flag |-> FALSE]

\* The operation did not return: the process was stopped by a trap.
Fault == [kind |-> "fault", vec |-> NoVec, val |-> 0, hi |-> 0, flag |-> FALSE]

NoResult == [kind |-> "none", vec |-> NoVec, val |-> 0, hi |-> 0, flag |-> FALSE]

(* ---------------------------------------------------------------------- *)
(* Arithmetic operators                                                    *)
(* ---------------------------------------------------------------------- *)

\* operator+ with the loop stopping one lane early.
operator_add_short(x, y) ==
    LET RECURSIVE loop(_, _)
        loop(i, r) == IF i < N - 1
                        THEN loop(i + 1, [r EXCEPT ![i] = narrow(x[i] + y[i])])
                        ELSE r
    IN loop(0, default_vector)

operator_add(x, y) ==
    LET RECURSIVE loop(_, _)
        loop(i, r) == IF i < N
                        THEN loop(i + 1, [r EXCEPT ![i] = narrow(x[i] + y[i])])
                        ELSE r
    IN loop(0, default_vector)

operator_sub(x, y) ==
    LET RECURSIVE loop(_, _)
        loop(i, r) == IF i < N
                        THEN loop(i + 1, [r EXCEPT ![i] = narrow(x[i] - y[i])])
                        ELSE r
    IN loop(0, default_vector)

operator_mul(x, y) ==
    LET RECURSIVE loop(_, _)
        loop(i, r) == IF i < N
                        THEN loop(i + 1, [r EXCEPT ![i] = narrow(x[i] * y[i])])
                        ELSE r
    IN loop(0, default_vector)

\* One lane of an integer division.  Dividing by zero is undefined: u is the
\* value the hardware leaves when it does not trap (see Div for the trap).
div_lane(x, y, u) == IF y = 0 THEN u ELSE narrow(trunc_div(x, y))

operator_div(x, y, u) ==
    LET RECURSIVE loop(_, _)
        loop(i, r) == IF i < N
                        THEN loop(i + 1, [r EXCEPT ![i] = div_lane(x[i], y[i], u)])
                        ELSE r
    IN loop(0, default_vector)

\* operator/=(vector&, const vector&) run for lanes 0 .. stop-1; stop = N is
\* the whole call, a smaller stop is the call cut short by a trap in lane stop.
operator_div_assign(x, y, u, stop) ==
    LET RECURSIVE loop(_, _)
        loop(i, v) == IF i < stop
                        THEN loop(i + 1, [v EXCEPT ![i] = div_lane(v[i], y[i], u)])
                        ELSE v
    IN loop(0, x)

\* Vector-scalar operators: the scalar is applied to every lane.
operator_add_vs(v, s) ==
    LET RECURSIVE loop(_, _)
        loop(i, r) == IF i < N
                        THEN loop(i + 1, [r EXCEPT ![i] = narrow(v[i] + s)])
                        ELSE r
    IN loop(0, default_vector)

operator_add_sv(s, v) ==
    LET RECURSIVE loop(_, _)
        loop(i, r) == IF i < N
                        THEN loop(i + 1, [r EXCEPT ![i] = narrow(v[i] + s)])
                        ELSE r
    IN loop(0, default_vector)

operator_sub_vs(v, s) ==
    LET RECURSIVE loop(_, _)
        loop(i, r) == IF i < N
                        THEN loop(i + 1, [r EXCEPT ![i] = narrow(v[i] - s)])
                        ELSE r
    IN loop(0, default_vector)

\* operator-(s, v) subtracting the scalar from the lane.
operator_sub_sv_swapped(s, v) ==
    LET RECURSIVE loop(_, _)
        loop(i, r) == IF i < N
                        THEN loop(i + 1, [r EXCEPT ![i] = narrow(v[i] - s)])
                        ELSE r
    IN loop(0, default_vector)

operator_sub_sv(s, v) ==
    LET RECURSIVE loop(_, _)
        loop(i, r) == IF i < N
                        THEN loop(i + 1, [r EXCEPT ![i] = narrow(s - v[i])])
                        ELSE r
    IN loop(0, default_vector)

operator_mul_vs(v, s) ==
    LET RECURSIVE loop(_, _)
        loop(i, r) == IF i < N
                        THEN loop(i + 1, [r EXCEPT ![i] = narrow(v[i] * s)])
                        ELSE r
    IN loop(0, default_vector)

operator_mul_sv(s, v) ==
    LET RECURSIVE loop(_, _)
        loop(i, r) == IF i < N
                        THEN loop(i + 1, [r EXCEPT ![i] = narrow(v[i] * s)])
                        ELSE r
    IN loop(0, default_vector)

operator_div_vs(v, s, u) ==
    LET RECURSIVE loop(_, _)
        loop(i, r) == IF i < N
                        THEN loop(i + 1, [r EXCEPT ![i] = div_lane(v[i], s, u)])
                        ELSE r
    IN loop(0, default_vector)

operator_div_sv(s, v, u) ==
    LET RECURSIVE loop(_, _)
        loop(i, r) == IF i < N
                        THEN loop(i + 1, [r EXCEPT ![i] = div_lane(s, v[i], u)])
                        ELSE r
    IN loop(0, default_vector)

(* ---------------------------------------------------------------------- *)
(* Logical operators: each returns one bool                                *)
(* ---------------------------------------------------------------------- *)

operator_eq(x, y) ==
    LET RECURSIVE loop(_)
        loop(i) == IF i < N
                     THEN (IF x[i] # y[i] THEN FALSE ELSE loop(i + 1))
                     ELSE TRUE
    IN loop(0)

operator_ne(x, y) == ~operator_eq(x, y)

\* operator< rejecting only greater lanes, as operator<= does.
operator_lt_as_le(x, y) ==
    LET RECURSIVE loop(_)
        loop(i) == IF i < N
                     THEN (IF x[i] > y[i] THEN FALSE ELSE loop(i + 1))
                     ELSE TRUE
    IN loop(0)

operator_lt(x, y) ==
    LET RECURSIVE loop(_)
        loop(i) == IF i < N
                     THEN (IF x[i] >= y[i] THEN FALSE ELSE loop(i + 1))
                     ELSE TRUE
    IN loop(0)

operator_gt(x, y) ==
    LET RECURSIVE loop(_)
        loop(i) == IF i < N
                     THEN (IF x[i] <= y[i] THEN FALSE ELSE loop(i + 1))
                     ELSE TRUE
    IN loop(0)

\* operator<= accepting as soon as one lane is not greater.
operator_le_any(x, y) ==
    LET RECURSIVE loop(_)
        loop(i) == IF i < N
                     THEN (IF x[i] <= y[i] THEN TRUE ELSE loop(i + 1))
                     ELSE FALSE
    IN loop(0)

operator_le(x, y) ==
    LET RECURSIVE loop(_)
        loop(i) == IF i < N
                     THEN (IF x[i] > y[i] THEN FALSE ELSE loop(i + 1))
                     ELSE TRUE
    IN loop(0)

operator_ge(x, y) ==
    LET RECURSIVE loop(_)
        loop(i) == IF i < N
                     THEN (IF x[i] < y[i] THEN FALSE ELSE loop(i + 1))
                     ELSE TRUE
    IN loop(0)

(* ---------------------------------------------------------------------- *)
(* Negation, bitwise and logical operators                                 *)
(* ---------------------------------------------------------------------- *)

operator_neg(v) ==
    LET RECURSIVE loop(_, _)
        loop(i, r) == IF i < N
                        THEN loop(i + 1, [r EXCEPT ![i] = narrow(-v[i])])
                        ELSE r
    IN loop(0, default_vector)

\* The bit pattern of an i8 value read as an unsigned number.
bits_of(x) == x % Modulus

\* One bit of &, | and ^.
bit_op(name, p, q) ==
    CASE name = "and" -> p * q
      [] name = "or" -> (IF p + q > 0 THEN 1 ELSE 0)
      [] name = "xor" -> (p + q) % 2

\* Bitwise combination of two bit patterns of k bits.
RECURSIVE bitwise(_, _, _, _)
bitwise(name, x, y, k) ==
    IF k = 0 THEN 0
             ELSE bit_op(name, x % 2, y % 2)
                  + 2 * bitwise(name, x \div 2, y \div 2, k - 1)

and_lane(x, y) == narrow(bitwise("and", bits_of(x), bits_of(y), Bits))

or_lane(x, y) == narrow(bitwise("or", bits_of(x), bits_of(y), Bits))

xor_lane(x, y) == narrow(bitwise("xor", bits_of(x), bits_of(y), Bits))

not_lane(x) == narrow(bitwise("xor", bits_of(x), Modulus - 1, Bits))

operator_and(x, y) ==
    LET RECURSIVE loop(_, _)
        loop(i, r) == IF i < N
                        THEN loop(i + 1, [r EXCEPT ![i] = and_lane(x[i], y[i])])
                        ELSE r
    IN loop(0, default_vector)

operator_or(x, y) ==
    LET RECURSIVE loop(_, _)
        loop(i, r) == IF i < N
                        THEN loop(i + 1, [r EXCEPT ![i] = or_lane(x[i], y[i])])
                        ELSE r
    IN loop(0, default_vector)

\* operator^ computing | in every lane.
operator_xor_as_or(x, y) ==
    LET RECURSIVE loop(_, _)
        loop(i, r) == IF i < N
                        THEN loop(i + 1, [r EXCEPT ![i] = or_lane(x[i], y[i])])
                        ELSE r
    IN loop(0, default_vector)

operator_xor(x, y) ==
    LET RECURSIVE loop(_, _)
        loop(i, r) == IF i < N
                        THEN loop(i + 1, [r EXCEPT ![i] = xor_lane(x[i], y[i])])
                        ELSE r
    IN loop(0, default_vector)

operator_not(v) ==
    LET RECURSIVE loop(_, _)
        loop(i, r) == IF i < N
                        THEN loop(i + 1, [r EXCEPT ![i] = not_lane(v[i])])
                        ELSE r
    IN loop(0, default_vector)

\* A bool stored into a lane.
from_bool(f) == IF f THEN 1 ELSE 0

operator_logical_and(x, y) ==
    LET RECURSIVE loop(_, _)
        loop(i, r) == IF i < N
                        THEN loop(i + 1, [r EXCEPT ![i] = from_bool(x[i] # 0 /\ y[i] # 0)])
                        ELSE r
    IN loop(0, default_vector)

operator_logical_or(x, y) ==
    LET RECURSIVE loop(_, _)
        loop(i, r) == IF i < N
                        THEN loop(i + 1, [r EXCEPT ![i] = from_bool(x[i] # 0 \/ y[i] # 0)])
                        ELSE r
    IN loop(0, default_vector)

operator_logical_not(v) ==
    LET RECURSIVE loop(_, _)
        loop(i, r) == IF i < N
                        THEN loop(i + 1, [r EXCEPT ![i] = from_bool(v[i] = 0)])
                        ELSE r
    IN loop(0, default_vector)

(* ---------------------------------------------------------------------- *)
(* Scalar element access                                                   *)
(* ---------------------------------------------------------------------- *)

Half == 2 ^ 16

\* Conversion of an i8 value to u32 (modulo 2^32), kept as two 16-bit halves.
to_u32(x) == IF x >= 0 THEN [hi |-> 0, lo |-> x]
                       ELSE [hi |-> Half - 1, lo |-> Half + x]

\* The u32 value 0.
ZeroWord == [hi |-> 0, lo |-> 0]

U32Result(w) == [kind |-> "u32", vec |-> NoVec, val |-> w.lo, hi |-> w.hi, flag |-> FALSE]

\* A u32 converted to f64: every u32 is exactly representable.
F64Result(w) == [kind |-> "f64", vec |-> NoVec, val |-> w.lo, hi |-> w.hi, flag |-> FALSE]

\* vec_type[i] as an rvalue.  There is no range check: an index outside the
\* N lanes reads memory the vector never wrote, g stands for what is there.
lane_read(v, i, g) == IF i < N THEN v[i] ELSE g

\* extract_element(const u64&) const, the overload a const vector selects.
extract_element(v, i, g) == to_u32(lane_read(v, i, g))

\* operator[] forwards to extract_element and widens its u32 to f64.
operator_index(v, i, g) == extract_element(v, i, g)

(* ---------------------------------------------------------------------- *)
(* Conversions from and to std::array<T, N>                                *)
(* ---------------------------------------------------------------------- *)

vector_from_array(array) ==
    LET RECURSIVE loop(_, _)
        loop(i, v) == IF i < N
                        THEN loop(i + 1, [v EXCEPT ![i] = array[i]])
                        ELSE v
    IN loop(0, default_vector)

\* The conversion to std::array with the loop stopping one position early.
operator_array_short(v) ==
    LET RECURSIVE loop(_, _)
        loop(i, array) == IF i < N - 1
                            THEN loop(i + 1, [array EXCEPT ![i] = v[i]])
                            ELSE array
    IN loop(0, default_vector)

operator_array(v) ==
    LET RECURSIVE loop(_, _)
        loop(i, array) == IF i < N
                            THEN loop(i + 1, [array EXCEPT ![i] = v[i]])
                            ELSE array
    IN loop(0, default_vector)

(* ---------------------------------------------------------------------- *)
(* Member reductions                                                       *)
(* ---------------------------------------------------------------------- *)

\* min() with the comparison of max().
min_as_max(v) ==
    LET RECURSIVE loop(_, _)
        loop(i, r) == IF i < N
                        THEN loop(i + 1, IF v[i] > r THEN v[i] ELSE r)
                        ELSE r
    IN loop(1, v[0])

min(v) ==
    LET RECURSIVE loop(_, _)
        loop(i, r) == IF i < N
                        THEN loop(i + 1, IF v[i] < r THEN v[i] ELSE r)
                        ELSE r
    IN loop(1, v[0])

max(v) ==
    LET RECURSIVE loop(_, _)
        loop(i, r) == IF i < N
                        THEN loop(i + 1, IF v[i] > r THEN v[i] ELSE r)
                        ELSE r
    IN loop(1, v[0])

\* horizontal_sum() with the loop starting at lane 1, as min() and max() do.
horizontal_sum_from_one(v) ==
    LET RECURSIVE loop(_, _)
        loop(i, r) == IF i < N
                        THEN loop(i + 1, narrow(r + v[i]))
                        ELSE r
    IN loop(1, 0)

horizontal_sum(v) ==
    LET RECURSIVE loop(_, _)
        loop(i, r) == IF i < N
                        THEN loop(i + 1, narrow(r + v[i]))
                        ELSE r
    IN loop(0, 0)

\* abs(): std::abs on the promoted lane, narrowed on the store.
abs(v) ==
    LET RECURSIVE loop(_, _)
        loop(i, r) == IF i < N
                        THEN loop(i + 1, [r EXCEPT ![i] = narrow(magnitude(v[i]))])
                        ELSE r
    IN loop(0, default_vector)

sign(v) ==
    LET RECURSIVE loop(_, _)
        loop(i, r) == IF i < N
                        THEN loop(i + 1, [r EXCEPT ![i] =
                                  narrow(from_bool(v[i] > 0) - from_bool(v[i] < 0))])
                        ELSE r
    IN loop(0, default_vector)

\* The member length_squared(): the accumulator is narrowed on every +=.
length_squared(v) ==
    LET RECURSIVE loop(_, _)
        loop(i, r) == IF i < N
                        THEN loop(i + 1, narrow(r + v[i] * v[i]))
                        ELSE r
    IN loop(0, 0)

\* result / N divides in std::size_t: the i8 sum is converted to a 64-bit
\* unsigned value first.  The quotient is computed by long division on the
\* four 16-bit digits of that value and then narrowed to i8.
u64_digits(x) == IF x >= 0 THEN <<0, 0, 0, x>>
                           ELSE <<Half - 1, Half - 1, Half - 1, Half + x>>

u64_div_low(x, d) ==
    LET digits == u64_digits(x)
        RECURSIVE step(_, _, _)
        step(k, rem, q) == IF k <= 4
                             THEN step(k + 1, (rem * Half + digits[k]) % d,
                                       (rem * Half + digits[k]) \div d)
                             ELSE q
    IN step(1, 0, 0)

avg(v) == narrow(u64_div_low(horizontal_sum(v), N))

\* sum of squares, then std::sqrt in double and conversion back to i8.  A
\* negative sum gives NaN, whose conversion to an integer is undefined: g.
isqrt(x) == CHOOSE r \in 0..x : r * r <= x /\ (r + 1) * (r + 1) > x

length(v, g) ==
    LET RECURSIVE loop(_, _)
        loop(i, r) == IF i < N
                        THEN loop(i + 1, narrow(r + v[i] * v[i]))
                        ELSE r
        sum == loop(0, 0)
    IN IF sum < 0 THEN g ELSE isqrt(sum)

normalize(v, g, u) ==
    LET len == length(v, g)
        RECURSIVE loop(_, _)
        loop(i, w) == IF i < N
                        THEN loop(i + 1, [w EXCEPT ![i] = div_lane(w[i], len, u)])
                        ELSE w
    IN loop(0, v)


(* ---------------------------------------------------------------------- *)
(* Stream output                                                           *)
(* ---------------------------------------------------------------------- *)

\* What one << writes to the stream: a string literal, or a lane (inserted
\* by the operator<< of the element type).
Text(str) == [is_lane |-> FALSE, text |-> str, lane |-> 0]

LaneToken(x) == [is_lane |-> TRUE, text |-> "", lane |-> x]

\* operator<< that writes the separator after every lane.
operator_stream_trailing(os, v) ==
    LET RECURSIVE loop(_, _)
        loop(i, out) ==
            IF i < N
                THEN loop(i + 1, Append(Append(out, LaneToken(v[i])), Text(", ")))
                ELSE out
    IN Append(loop(0, Append(os, Text("{"))), Text("}"))

operator_stream(os, v) ==
    LET RECURSIVE loop(_, _)
        loop(i, out) ==
            IF i < N
                THEN loop(i + 1,
                          LET lane == Append(out, LaneToken(v[i]))
                          IN IF i < N - 1 THEN Append(lane, Text(", ")) ELSE lane)
                ELSE out
    IN Append(loop(0, Append(os, Text("{"))), Text("}"))

StreamResult(os) == [kind |-> "ostream", vec |-> os, val |-> 0, hi |-> 0, flag |-> FALSE]

(* ---------------------------------------------------------------------- *)
(* Non-member functions                                                    *)
(* ---------------------------------------------------------------------- *)

\* A double, as far as dot_product needs it: an exact integer of small
\* magnitude, or a value of at least 2^32 - 2^Bits (large).
F64Small(x) == [large |-> FALSE, v |-> x]

F64Large == [large |-> TRUE, v |-> 0]

\* a[i] * b[i] on the doubles operator[] returns.  A lane read through
\* operator[] is a u32 value: below 2^Bits when hi = 0, else at least
\* 2^32 - 2^Bits.
f64_mul(x, y) ==
    IF x.hi = 0 /\ y.hi = 0 THEN F64Small(x.lo * y.lo)
    ELSE IF (x.hi = 0 /\ x.lo = 0) \/ (y.hi = 0 /\ y.lo = 0) THEN F64Small(0)
    ELSE F64Large

\* result + product, with result an i8 converted to double.
f64_add(r, p) == IF p.large THEN F64Large ELSE F64Small(r + p.v)

\* Conversion of a double to i8 on the store.  A value outside the range
\* of i8 is undefined behaviour: the build either keeps the low bits of the
\* value converted to int (wrap, possible when it fits an int) or leaves g.
f64_to_T(d, g, wrap) ==
    IF ~d.large /\ d.v \in T THEN d.v
    ELSE IF wrap /\ ~d.large THEN narrow(d.v)
    ELSE g

dot_product(x, y, g, wrap) ==
    LET RECURSIVE loop(_, _)
        loop(i, r) ==
            IF i < N
                THEN loop(i + 1,
                          f64_to_T(f64_add(r, f64_mul(operator_index(x, i, g),
                                                      operator_index(y, i, g))),
                                   g, wrap))
                ELSE r
    IN loop(0, 0)

\* The non-member length_squared(a).
length_squared_of(v, g, wrap) == dot_product(v, v, g, wrap)

\* The non-member min(a, b) and max(a, b); a < b and a > b are one bool.
min_of(x, y) == IF operator_lt(x, y) THEN x ELSE y

max_of(x, y) == IF operator_gt(x, y) THEN x ELSE y

\* A double holding an integer, written c2 * 2^64 + c1 * 2^32 + c0 with small
\* coefficients: what operator[] returns (a u32 widened to f64) and the
\* products and differences cross_product forms of such values.
f64_of(w) == [c2 |-> 0,
              c1 |-> IF w.hi = 0 THEN 0 ELSE 1,
              c0 |-> IF w.hi = 0 THEN w.lo ELSE w.lo - Half]

\* Spacing of the doubles in [2^63, 2^64).
Ulp63 == 2 ^ 11

\* Rounding of the low part of a product near 2^64 to the nearest double,
\* ties to the even significand (the part above c0 is an even multiple of
\* the spacing).
round_nearest_even(p) ==
    LET q == p \div Ulp63
        r == p % Ulp63
    IN Ulp63 * (IF 2 * r < Ulp63 THEN q
                ELSE IF 2 * r > Ulp63 THEN q + 1
                ELSE IF q % 2 = 0 THEN q ELSE q + 1)

\* p * q in double: exact below 2^53, rounded once when both factors are
\* at least 2^32 - 2^Bits.
f64_product(p, q) ==
    LET c2 == p.c1 * q.c1
        c1 == p.c1 * q.c0 + q.c1 * p.c0
        c0 == p.c0 * q.c0
    IN [c2 |-> c2, c1 |-> c1, c0 |-> IF c2 = 0 THEN c0 ELSE round_nearest_even(c0)]

\* p - q in double.  The coefficients are exact whenever c2 cancels; a
\* difference that keeps c2 is only known to be at least 2^63 in magnitude.
f64_difference(p, q) == [c2 |-> p.c2 - q.c2, c1 |-> p.c1 - q.c1, c0 |-> p.c0 - q.c0]

\* Conversion of such a double to i8 when it is bound to a const T&
\* parameter.  Outside the range of i8 this is undefined: the build keeps
\* the low bits of the value converted to a wider integer (wrap, possible
\* below 2^63) or leaves g.
f64_narrow(d, g, wrap) ==
    IF d.c2 = 0 /\ d.c1 = 0 /\ d.c0 \in T THEN d.c0
    ELSE IF wrap /\ d.c2 = 0 THEN narrow(d.c0)
    ELSE g

\* cross_product for vector<T, 3>: every a[i] and b[i] is read through
\* operator[], and the three doubles are passed to vector(first, args...).
cross_product(p, q, g, wrap) ==
    LET pa(i) == f64_of(operator_index(p, i, g))
        qb(i) == f64_of(operator_index(q, i, g))
        lane(i, j) == f64_narrow(f64_difference(f64_product(pa(i), qb(j)),
                                                f64_product(pa(j), qb(i))),
                                 g, wrap)
    IN [k \in 0..2 |-> CASE k = 0 -> lane(1, 2)
                         [] k = 1 -> lane(2, 0)
                         [] k = 2 -> lane(0, 1)]

\* std::max(x, y) and std::min(x, y) instantiated for vectors: the standard
\* templates return (x < y) ? y : x and (y < x) ? y : x, with < the vector
\* operator<, one bool for all lanes.
std_max(p, q) == IF operator_lt(p, q) THEN q ELSE p

std_min(p, q) == IF operator_lt(q, p) THEN q ELSE p

\* clamp(a, b, c): b is the lower and c the upper bound.
clamp(v, lo, hi) == std_min(std_max(v, lo), hi)

(* ---------------------------------------------------------------------- *)
(* Lane rearrangement                                                      *)
(* ---------------------------------------------------------------------- *)

\* src/scl.hpp has no permute or shuffle; this is the operation as the
\* specification describes it: lane i of the result is lane idx[i] of v.
\* A permute that reads the index list one position off.
permute_shifted(v, idx) == [i \in Lanes |-> v[idx[(i + 1) % N]]]

permute(v, idx) == [i \in Lanes |-> v[idx[i]]]

identity_indices == [i \in Lanes |-> i]

\* Index lists a call is made with: the identity, the reversal, a rotation
\* by one lane and the broadcast of lane 0.
IndexLists == { identity_indices,
                [i \in Lanes |-> N - 1 - i],
                [i \in Lanes |-> (i + 1) % N],
                [i \in Lanes |-> 0] }

(* ---------------------------------------------------------------------- *)
(* Construction, assignment and mutating members                           *)
(* ---------------------------------------------------------------------- *)

\* The defaulted copy constructor and copy assignment: vec_type is a member
\* held by value, so every lane is copied into the storage of the new object.
copy_construct(v) == [i \in DOMAIN v |-> v[i]]

vector_from_scalar(s) ==
    LET RECURSIVE loop(_, _)
        loop(i, v) == IF i < N THEN loop(i + 1, [v EXCEPT ![i] = s]) ELSE v
    IN loop(0, default_vector)

assign_scalar(v, s) ==
    LET RECURSIVE loop(_, _)
        loop(i, w) == IF i < N THEN loop(i + 1, [w EXCEPT ![i] = s]) ELSE w
    IN loop(0, v)

\* set_all() with the loop stopping one lane early.
set_all_short(v, value) ==
    LET RECURSIVE loop(_, _)
        loop(i, w) == IF i < N - 1 THEN loop(i + 1, [w EXCEPT ![i] = value]) ELSE w
    IN loop(0, v)

set_all(v, value) ==
    LET RECURSIVE loop(_, _)
        loop(i, w) == IF i < N THEN loop(i + 1, [w EXCEPT ![i] = value]) ELSE w
    IN loop(0, v)

set_zero(v) ==
    LET RECURSIVE loop(_, _)
        loop(i, w) == IF i < N THEN loop(i + 1, [w EXCEPT ![i] = 0]) ELSE w
    IN loop(0, v)

set_one(v) ==
    LET RECURSIVE loop(_, _)
        loop(i, w) == IF i < N THEN loop(i + 1, [w EXCEPT ![i] = 1]) ELSE w
    IN loop(0, v)

\* insert_element(const u64&, const T&) with an index inside the N lanes.
insert_element(v, i, value) == [v EXCEPT ![i] = value]

operator_add_assign(x, y) ==
    LET RECURSIVE loop(_, _)
        loop(i, v) == IF i < N
                        THEN loop(i + 1, [v EXCEPT ![i] = narrow(v[i] + y[i])])
                        ELSE v
    IN loop(0, x)

\* operator-= subtracting the left operand from the right one.
operator_sub_assign_reversed(x, y) ==
    LET RECURSIVE loop(_, _)
        loop(i, v) == IF i < N
                        THEN loop(i + 1, [v EXCEPT ![i] = narrow(y[i] - v[i])])
                        ELSE v
    IN loop(0, x)

operator_sub_assign(x, y) ==
    LET RECURSIVE loop(_, _)
        loop(i, v) == IF i < N
                        THEN loop(i + 1, [v EXCEPT ![i] = narrow(v[i] - y[i])])
                        ELSE v
    IN loop(0, x)

operator_mul_assign(x, y) ==
    LET RECURSIVE loop(_, _)
        loop(i, v) == IF i < N
                        THEN loop(i + 1, [v EXCEPT ![i] = narrow(v[i] * y[i])])
                        ELSE v
    IN loop(0, x)

\* a op= a: both parameters are references to the same object, so the
\* right operand of iteration i is read from the lanes as they are then.
\* Lanes 0 .. stop-1 are done (stop < N: the call was cut short by a trap).
compound_assign_aliased(name, x, u, stop) ==
    LET RECURSIVE loop(_, _)
        loop(i, v) ==
            IF i < stop
                THEN loop(i + 1, [v EXCEPT ![i] =
                          CASE name = "operator+=" -> narrow(v[i] + v[i])
                            [] name = "operator-=" -> narrow(v[i] - v[i])
                            [] name = "operator*=" -> narrow(v[i] * v[i])
                            [] name = "operator/=" -> div_lane(v[i], v[i], u)])
                ELSE v
    IN loop(0, x)

\* list.begin()[i] and vector[i] on a source of L elements.  Neither checks
\* i against L: a position past the end reads memory the source does not
\* own, g stands for what is there.
source_read(src, L, i, g) == IF i < L THEN src[i] ELSE g

\* vector(const std::initializer_list<T>&) run for positions 0 .. stop-1;
\* reads collects the positions of the source that were read.
vector_from_initializer_list(src, L, g, stop) ==
    LET RECURSIVE loop(_, _)
        loop(i, r) ==
            IF i < stop
                THEN loop(i + 1, [vec |-> [r.vec EXCEPT ![i] = source_read(src, L, i, g)],
                                  reads |-> r.reads \cup {i}])
                ELSE r
    IN loop(0, [vec |-> default_vector, reads |-> {}])

\* vector(const std::vector<T>&).
vector_from_std_vector(src, L, g, stop) ==
    LET RECURSIVE loop(_, _)
        loop(i, r) ==
            IF i < stop
                THEN loop(i + 1, [vec |-> [r.vec EXCEPT ![i] = source_read(src, L, i, g)],
                                  reads |-> r.reads \cup {i}])
                ELSE r
    IN loop(0, [vec |-> default_vector, reads |-> {}])

\* operator=(const std::initializer_list<T>&) on the object holding v.
assign_initializer_list(v, src, L, g, stop) ==
    LET RECURSIVE loop(_, _)
        loop(i, r) ==
            IF i < stop
                THEN loop(i + 1, [vec |-> [r.vec EXCEPT ![i] = source_read(src, L, i, g)],
                                  reads |-> r.reads \cup {i}])
                ELSE r
    IN loop(0, [vec |-> v, reads |-> {}])

operator_and_assign(x, y) ==
    LET RECURSIVE loop(_, _)
        loop(i, v) == IF i < N
                        THEN loop(i + 1, [v EXCEPT ![i] = and_lane(v[i], y[i])])
                        ELSE v
    IN loop(0, x)

operator_or_assign(x, y) ==
    LET RECURSIVE loop(_, _)
        loop(i, v) == IF i < N
                        THEN loop(i + 1, [v EXCEPT ![i] = or_lane(v[i], y[i])])
                        ELSE v
    IN loop(0, x)

operator_xor_assign(x, y) ==
    LET RECURSIVE loop(_, _)
        loop(i, v) == IF i < N
                        THEN loop(i + 1, [v EXCEPT ![i] = xor_lane(v[i], y[i])])
                        ELSE v
    IN loop(0, x)

\* step(a, b): a < b is one bool, and vector<T, N>(bool) is the constructor
\* from a scalar, which writes it to every lane.
step(v, w) == vector_from_scalar(from_bool(operator_lt(v, w)))

(* ---------------------------------------------------------------------- *)
(* Initial states: the operands                                            *)
(* ---------------------------------------------------------------------- *)

\* No threads are running (see the threads section).
NoThreads == [t \in {} |-> 0]

FromTuple(t) == [i \in 0..(Len(t) - 1) |-> t[i + 1]]

\* Operands with more lanes than MaxN, written out.
Literals == { <<1, 2, 3>>, <<3, 2, 1>>, <<0, 0, 0>>, <<-128, 127, -1>>,
              <<1, 2, 3, 4>>, <<4, 3, 2, 1>>, <<0, 0, 0, 0>>,
              <<3, -1, -128, 127>>, <<127, 127, 127, 127>> }

Init ==
    /\ \/ /\ N \in 1..MaxN
          /\ a \in [0..(N - 1) -> LaneValues]
          /\ b \in [0..(N - 1) -> LaneValues]
       \/ \E s \in Literals, t \in Literals :
             /\ Len(s) = Len(t)
             /\ N = Len(s)
             /\ a = FromTuple(s)
             /\ b = FromTuple(t)
    /\ pc = "ready"
    /\ op = "none"
    /\ index = 0
    /\ indices = NoVec
    /\ scalar = 0
    /\ target = "none"
    /\ th = NoThreads
    /\ result = NoResult
    /\ c = NoVec
    /\ list = NoVec
    /\ reads = {}
    /\ word = ZeroWord
    /\ arg = ZeroWord

(* ---------------------------------------------------------------------- *)
(* Actions: one call of one operation on the operands                      *)
(* ---------------------------------------------------------------------- *)

\* Bookkeeping of a call that leaves both operands alone.
Call(name, r) ==
    /\ pc = "ready"
    /\ pc' = "done"
    /\ op' = name
    /\ result' = r
    /\ UNCHANGED <<N, a, b>>

\* The two vector objects of a behaviour, by name.
operand(which) == IF which = "a" THEN a ELSE b

other(which) == IF which = "a" THEN "b" ELSE "a"

\* A store that reaches the lanes of both objects, as it would if copies
\* shared their storage.
SetOperandShared(which, v) == a' = v /\ b' = v

\* A store into the lanes of one object: vec_type is a member of that object,
\* so the lanes of the other object are not touched.
SetOperand(which, v) ==
    IF which = "a" THEN a' = v /\ b' = b
                   ELSE b' = v /\ a' = a

\* Bookkeeping of a call of a mutating member or assigning operator on the
\* object which; it returns a reference to that object.
Mutate(name, which, v) ==
    /\ pc \in {"ready", "copied"}
    /\ pc' = (IF pc = "copied" THEN "mutated" ELSE "done")
    /\ op' = name
    /\ target' = which
    /\ SetOperand(which, v)
    /\ result' = VecResult(v)
    /\ UNCHANGED <<N, th, c, list, reads, word, arg>>

HasZeroLane(v) == \E i \in Lanes : v[i] = 0

FirstZeroLane(v) == CHOOSE i \in Lanes : v[i] = 0 /\ \A j \in 0..(i - 1) : v[j] # 0

\* operator+ computed into its left operand, as operator+= does.
AddInPlace ==
    /\ pc = "ready"
    /\ pc' = "done"
    /\ op' = "operator+"
    /\ a' = operator_add(a, b)
    /\ result' = VecResult(a')
    /\ UNCHANGED <<N, b, index, indices, scalar, target, th, c, list, reads, word, arg>>

Add == Call("operator+", VecResult(operator_add(a, b))) /\ UNCHANGED <<index, indices, scalar, target, th, c, list, reads, word, arg>>

Sub == Call("operator-", VecResult(operator_sub(a, b))) /\ UNCHANGED <<index, indices, scalar, target, th, c, list, reads, word, arg>>

Mul == Call("operator*", VecResult(operator_mul(a, b))) /\ UNCHANGED <<index, indices, scalar, target, th, c, list, reads, word, arg>>

Div ==
    /\ \/ \E u \in Indeterminate : Call("operator/", VecResult(operator_div(a, b, u)))
       \/ HasZeroLane(b) /\ Call("operator/", Fault)
    /\ UNCHANGED <<index, indices, scalar, target, th, c, list, reads, word, arg>>

DivAssign ==
    /\ pc = "ready"
    /\ pc' = "done"
    /\ op' = "operator/="
    /\ \/ \E u \in Indeterminate :
             /\ a' = operator_div_assign(a, b, u, N)
             /\ result' = VecResult(a')
       \/ /\ HasZeroLane(b)
          /\ \E u \in Indeterminate :
                a' = operator_div_assign(a, b, u, FirstZeroLane(b))
          /\ result' = Fault
    /\ target' = "a"
    /\ UNCHANGED <<N, b, index, indices, scalar, th, c, list, reads, word, arg>>

Normalize ==
    /\ pc = "ready"
    /\ pc' = "done"
    /\ op' = "normalize"
    /\ \E g \in Indeterminate :
          \/ \E u \in Indeterminate :
                /\ a' = normalize(a, g, u)
                /\ result' = VecResult(a')
          \/ /\ length(a, g) = 0
             /\ a' = a
             /\ result' = Fault
    /\ target' = "a"
    /\ UNCHANGED <<N, b, index, indices, scalar, th, c, list, reads, word, arg>>

Eq == Call("operator==", BoolResult(operator_eq(a, b))) /\ UNCHANGED <<index, indices, scalar, target, th, c, list, reads, word, arg>>

Ne == Call("operator!=", BoolResult(operator_ne(a, b))) /\ UNCHANGED <<index, indices, scalar, target, th, c, list, reads, word, arg>>

Lt == Call("operator<", BoolResult(operator_lt(a, b))) /\ UNCHANGED <<index, indices, scalar, target, th, c, list, reads, word, arg>>

Gt == Call("operator>", BoolResult(operator_gt(a, b))) /\ UNCHANGED <<index, indices, scalar, target, th, c, list, reads, word, arg>>

Le == Call("operator<=", BoolResult(operator_le(a, b))) /\ UNCHANGED <<index, indices, scalar, target, th, c, list, reads, word, arg>>

Ge == Call("operator>=", BoolResult(operator_ge(a, b))) /\ UNCHANGED <<index, indices, scalar, target, th, c, list, reads, word, arg>>

IndexInputs == 0..(N - 1 + MaxOver)

Index ==
    /\ \E i \in IndexInputs :
          /\ index' = i
          /\ \/ \E g \in Indeterminate :
                   Call("operator[]", F64Result(operator_index(a, i, g)))
             \/ i >= N /\ Call("operator[]", Fault)
    /\ UNCHANGED <<indices, scalar, target, th, c, list, reads, word, arg>>

ExtractElement ==
    /\ \E i \in IndexInputs :
          /\ index' = i
          /\ \/ \E g \in Indeterminate :
                   Call("extract_element", U32Result(extract_element(a, i, g)))
             \/ i >= N /\ Call("extract_element", Fault)
    /\ UNCHANGED <<indices, scalar, target, th, c, list, reads, word, arg>>

ArrayRoundTrip ==
    /\ Call("array_round_trip", ArrayResult(operator_array(vector_from_array(a))))
    /\ UNCHANGED <<index, indices, scalar, target, th, c, list, reads, word, arg>>

Min == Call("min", ScalarResult(min(a))) /\ UNCHANGED <<index, indices, scalar, target, th, c, list, reads, word, arg>>

Max == Call("max", ScalarResult(max(a))) /\ UNCHANGED <<index, indices, scalar, target, th, c, list, reads, word, arg>>

HorizontalSum ==
    Call("horizontal_sum", ScalarResult(horizontal_sum(a))) /\ UNCHANGED <<index, indices, scalar, target, th, c, list, reads, word, arg>>

Avg == Call("avg", ScalarResult(avg(a))) /\ UNCHANGED <<index, indices, scalar, target, th, c, list, reads, word, arg>>

Permute ==
    /\ \E idx \in IndexLists :
          /\ indices' = idx
          /\ Call("permute", VecResult(permute(a, idx)))
    /\ UNCHANGED <<index, scalar, target, th, c, list, reads, word, arg>>

Neg == Call("operator-()", VecResult(operator_neg(a))) /\ UNCHANGED <<index, indices, scalar, target, th, c, list, reads, word, arg>>

BitAnd == Call("operator&", VecResult(operator_and(a, b))) /\ UNCHANGED <<index, indices, scalar, target, th, c, list, reads, word, arg>>

BitOr == Call("operator|", VecResult(operator_or(a, b))) /\ UNCHANGED <<index, indices, scalar, target, th, c, list, reads, word, arg>>

BitXor == Call("operator^", VecResult(operator_xor(a, b))) /\ UNCHANGED <<index, indices, scalar, target, th, c, list, reads, word, arg>>

BitNot == Call("operator~", VecResult(operator_not(a))) /\ UNCHANGED <<index, indices, scalar, target, th, c, list, reads, word, arg>>

LogicalAnd ==
    Call("operator&&", VecResult(operator_logical_and(a, b))) /\ UNCHANGED <<index, indices, scalar, target, th, c, list, reads, word, arg>>

LogicalOr ==
    Call("operator||", VecResult(operator_logical_or(a, b))) /\ UNCHANGED <<index, indices, scalar, target, th, c, list, reads, word, arg>>

LogicalNot ==
    Call("operator!", VecResult(operator_logical_not(a))) /\ UNCHANGED <<index, indices, scalar, target, th, c, list, reads, word, arg>>

Abs == Call("abs", VecResult(abs(a))) /\ UNCHANGED <<index, indices, scalar, target, th, c, list, reads, word, arg>>

Sign == Call("sign", VecResult(sign(a))) /\ UNCHANGED <<index, indices, scalar, target, th, c, list, reads, word, arg>>

LengthSquared ==
    Call("length_squared", ScalarResult(length_squared(a))) /\ UNCHANGED <<index, indices, scalar, target, th, c, list, reads, word, arg>>

\* vector w(v) or w = v: b becomes a copy of a.
Copy ==
    /\ pc = "ready"
    /\ pc' = "copied"
    /\ op' = "copy"
    /\ target' = "b"
    /\ SetOperand("b", copy_construct(a))
    /\ result' = VecResult(b')
    /\ UNCHANGED <<N, index, indices, scalar, th, c, list, reads, word, arg>>

ConstructScalar ==
    /\ \E s \in LaneValues :
          /\ scalar' = s
          /\ Call("vector(scalar)", VecResult(vector_from_scalar(s)))
    /\ UNCHANGED <<index, indices, target, th, c, list, reads, word, arg>>

AssignScalar ==
    /\ \E which \in {"a", "b"}, s \in LaneValues :
          /\ scalar' = s
          /\ Mutate("operator=(scalar)", which, assign_scalar(operand(which), s))
    /\ UNCHANGED <<index, indices>>

SetAll ==
    /\ \E which \in {"a", "b"}, s \in LaneValues :
          /\ scalar' = s
          /\ Mutate("set_all", which, set_all(operand(which), s))
    /\ UNCHANGED <<index, indices>>

SetZero ==
    /\ \E which \in {"a", "b"} : Mutate("set_zero", which, set_zero(operand(which)))
    /\ UNCHANGED <<index, indices, scalar>>

SetOne ==
    /\ \E which \in {"a", "b"} : Mutate("set_one", which, set_one(operand(which)))
    /\ UNCHANGED <<index, indices, scalar>>

InsertElement ==
    /\ \E which \in {"a", "b"}, i \in Lanes, s \in LaneValues :
          /\ index' = i
          /\ scalar' = s
          /\ Mutate("insert_element", which, insert_element(operand(which), i, s))
    /\ UNCHANGED indices

AddAssign ==
    /\ \E which \in {"a", "b"} :
          Mutate("operator+=", which,
                 operator_add_assign(operand(which), operand(other(which))))
    /\ UNCHANGED <<index, indices, scalar>>

SubAssign ==
    /\ \E which \in {"a", "b"} :
          Mutate("operator-=", which,
                 operator_sub_assign(operand(which), operand(other(which))))
    /\ UNCHANGED <<index, indices, scalar>>

MulAssign ==
    /\ \E which \in {"a", "b"} :
          Mutate("operator*=", which,
                 operator_mul_assign(operand(which), operand(other(which))))
    /\ UNCHANGED <<index, indices, scalar>>

\* a &= b, a |= b and a ^= b.
BitAssign ==
    /\ pc = "ready"
    /\ \/ Mutate("operator&=", "a", operator_and_assign(a, b))
       \/ Mutate("operator|=", "a", operator_or_assign(a, b))
       \/ Mutate("operator^=", "a", operator_xor_assign(a, b))
    /\ UNCHANGED <<index, indices, scalar>>

\* The values an undefined operation may leave, when the call can run into
\* one; a call that cannot does not consult the value.
Leftover(reachable) == IF reachable THEN Indeterminate ELSE {0}

AliasedOps == {"operator+=", "operator-=", "operator*=", "operator/="}

\* The name a call is recorded under when both operands are the object a.
aliased(name) == name \o "(a, a)"

\* a += a, a -= a, a *= a and a /= a.
SelfAssign ==
    /\ pc = "ready"
    /\ pc' = "done"
    /\ target' = "a"
    /\ \E name \in AliasedOps :
          /\ op' = aliased(name)
          /\ \/ \E u \in Leftover(name = "operator/=" /\ HasZeroLane(a)) :
                   /\ a' = compound_assign_aliased(name, a, u, N)
                   /\ result' = VecResult(a')
             \/ /\ name = "operator/="
                /\ HasZeroLane(a)
                /\ a' = compound_assign_aliased(name, a, 0, FirstZeroLane(a))
                /\ result' = Fault
    /\ UNCHANGED <<N, b, index, indices, scalar, th, c, list, reads, word, arg>>

\* v op s and s op v for each of +, -, *, /, with v the operand a and the
\* scalar s taken from lane 0 of b.
VectorScalar ==
    /\ scalar' = b[0]
    /\ \/ Call("operator+(v, s)", VecResult(operator_add_vs(a, b[0])))
       \/ Call("operator+(s, v)", VecResult(operator_add_sv(b[0], a)))
       \/ Call("operator-(v, s)", VecResult(operator_sub_vs(a, b[0])))
       \/ Call("operator-(s, v)", VecResult(operator_sub_sv(b[0], a)))
       \/ Call("operator*(v, s)", VecResult(operator_mul_vs(a, b[0])))
       \/ Call("operator*(s, v)", VecResult(operator_mul_sv(b[0], a)))
       \/ \E u \in Leftover(b[0] = 0) :
             Call("operator/(v, s)", VecResult(operator_div_vs(a, b[0], u)))
       \/ b[0] = 0 /\ Call("operator/(v, s)", Fault)
       \/ \E u \in Leftover(HasZeroLane(a)) :
             Call("operator/(s, v)", VecResult(operator_div_sv(b[0], a, u)))
       \/ HasZeroLane(a) /\ Call("operator/(s, v)", Fault)
    /\ UNCHANGED <<index, indices, target, th, c, list, reads, word, arg>>

\* Lengths of the sources a vector is built from: one element short, exactly
\* N, and one element more.
ListLengths == (N - 1)..(N + 1)

\* The source of L elements: the lanes of b, then lane 0 of a.
source_list(L) == [i \in 0..(L - 1) |-> IF i < N THEN b[i] ELSE a[0]]

\* Construction from an initializer list or a std::vector and assignment of
\* an initializer list to a.  A read past the end of the source either
\* returns what is there or traps at the first such position, L.
FromList ==
    /\ pc = "ready"
    /\ pc' = "done"
    /\ \E L \in ListLengths : \E g \in Leftover(L < N) :
          /\ list' = source_list(L)
          /\ \/ LET r == vector_from_initializer_list(list', L, g, N)
                IN /\ op' = "vector(initializer_list)"
                   /\ reads' = r.reads
                   /\ result' = VecResult(r.vec)
                   /\ UNCHANGED <<a, target>>
             \/ LET r == vector_from_std_vector(list', L, g, N)
                IN /\ op' = "vector(std::vector)"
                   /\ reads' = r.reads
                   /\ result' = VecResult(r.vec)
                   /\ UNCHANGED <<a, target>>
             \/ LET r == assign_initializer_list(a, list', L, g, N)
                IN /\ op' = "operator=(initializer_list)"
                   /\ reads' = r.reads
                   /\ a' = r.vec
                   /\ target' = "a"
                   /\ result' = VecResult(r.vec)
             \/ /\ L < N
                /\ g = 0
                /\ op' \in {"vector(initializer_list)", "vector(std::vector)"}
                /\ reads' = 0..L
                /\ result' = Fault
                /\ UNCHANGED <<a, target>>
             \/ /\ L < N
                /\ g = 0
                /\ op' = "operator=(initializer_list)"
                /\ reads' = 0..L
                /\ a' = assign_initializer_list(a, list', L, g, L).vec
                /\ target' = "a"
                /\ result' = Fault
    /\ UNCHANGED <<N, b, index, indices, scalar, th, c, word, arg>>

Step == Call("step", VecResult(step(a, b))) /\ UNCHANGED <<index, indices, scalar, target, th, c, list, reads, word, arg>>

\* os << a on a stream that already holds index tokens.
StreamOut ==
    /\ \E prior \in {<< >>, <<Text("a = ")>>} :
          /\ index' = Len(prior)
          /\ Call("operator<<", StreamResult(operator_stream(prior, a)))
    /\ UNCHANGED <<indices, scalar, target, th, c, list, reads, word, arg>>

DotProduct ==
    /\ \E g \in Indeterminate, wrap \in BOOLEAN :
          Call("dot_product", ScalarResult(dot_product(a, b, g, wrap)))
    /\ UNCHANGED <<index, indices, scalar, target, th, c, list, reads, word, arg>>

LengthSquaredOf ==
    /\ \E g \in Indeterminate, wrap \in BOOLEAN :
          Call("length_squared(a)", ScalarResult(length_squared_of(a, g, wrap)))
    /\ UNCHANGED <<index, indices, scalar, target, th, c, list, reads, word, arg>>

MinOf == Call("min(a, b)", VecResult(min_of(a, b))) /\ UNCHANGED <<index, indices, scalar, target, th, c, list, reads, word, arg>>

MaxOf == Call("max(a, b)", VecResult(max_of(a, b))) /\ UNCHANGED <<index, indices, scalar, target, th, c, list, reads, word, arg>>

\* Third operands a call is made with: b raised, lane by lane, to at least
\* floor, so that no lane of it is below the same lane of b.
UpperFloors == {3, TMax}

raised_operand(floor) == [i \in Lanes |-> IF b[i] >= floor THEN b[i] ELSE floor]

Clamp ==
    /\ pc = "ready"
    /\ \E floor \in UpperFloors :
          /\ c' = raised_operand(floor)
          /\ Call("clamp", VecResult(clamp(a, b, c')))
    /\ UNCHANGED <<index, indices, scalar, target, th, list, reads, word, arg>>

\* The overload for three-lane vectors.
CrossProduct ==
    /\ N = 3
    /\ \E g \in Indeterminate, wrap \in BOOLEAN :
          Call("cross_product", VecResult(cross_product(a, b, g, wrap)))
    /\ UNCHANGED <<index, indices, scalar, target, th, c, list, reads, word, arg>>

\* a <= b && b <= c on three vectors.
Order ==
    /\ pc = "ready"
    /\ \E floor \in UpperFloors :
          /\ c' = raised_operand(floor)
          /\ Call("ordering", BoolResult(operator_le(a, b) /\ operator_le(b, c')))
    /\ UNCHANGED <<index, indices, scalar, target, th, list, reads, word, arg>>

Next ==
    \/ Add \/ Sub \/ Mul \/ Div \/ DivAssign \/ Normalize
    \/ Eq \/ Ne \/ Lt \/ Gt \/ Le \/ Ge
    \/ Index \/ ExtractElement \/ ArrayRoundTrip
    \/ Min \/ Max \/ HorizontalSum \/ Avg
    \/ Permute
    \/ Neg \/ BitAnd \/ BitOr \/ BitXor \/ BitNot
    \/ LogicalAnd \/ LogicalOr \/ LogicalNot
    \/ Abs \/ Sign \/ LengthSquared
    \/ Copy \/ ConstructScalar \/ AssignScalar
    \/ SetAll \/ SetZero \/ SetOne \/ InsertElement
    \/ AddAssign \/ SubAssign \/ MulAssign
    \/ StreamOut \/ DotProduct \/ LengthSquaredOf \/ MinOf \/ MaxOf

Spec == Init /\ [][Next]_vars

\* A second group of calls on the same operands: the common vector
\* functions clamp, cross_product and step, the bitwise operators and every
\* assigning operator, the vector-scalar operators, construction from
\* lists and a chain of comparisons.  A behaviour is again one call.
NextFunctions ==
    \/ Clamp \/ CrossProduct \/ Step \/ Order
    \/ BitAnd \/ BitOr \/ BitXor \/ BitNot \/ BitAssign
    \/ AddAssign \/ SubAssign \/ MulAssign \/ DivAssign \/ SelfAssign
    \/ VectorScalar \/ FromList

SpecFunctions == Init /\ [][NextFunctions]_vars

(* ---------------------------------------------------------------------- *)
(* Threads: each runs assigning operators on vector objects of its own     *)
(* ---------------------------------------------------------------------- *)

Threads == {"t1", "t2"}

\* Longest program (sequence of calls) a thread runs.
MaxProg == 2

ThreadOps == {"operator+=", "operator*=", "set_one"}

Programs == UNION { [1..n -> ThreadOps] : n \in 1..MaxProg }

\* Lane values of the vector a thread mutates, and of its right operand.
ThreadValues(t) == IF t = "t1" THEN {TMin, 3} ELSE {-1, TMax}

ThreadArg(t) == IF t = "t1" THEN 3 ELSE -1

\* The store of one loop iteration: the body of the loop of the call.
lane_store(name, x, y) ==
    CASE name = "operator+=" -> narrow(x + y)
      [] name = "operator*=" -> narrow(x * y)
      [] name = "set_one" -> 1

\* A loop iteration that writes lane i of every thread's vector, as it
\* would if the lanes lived in storage shared by all objects.
thread_store_shared(ths, t, i, x) ==
    [u \in DOMAIN ths |-> [ths[u] EXCEPT !.vec[i] = x]]

\* A loop iteration of thread t writes lane i of the object the call was
\* given, which belongs to t; no other storage exists.
thread_store(ths, t, i, x) == [ths EXCEPT ![t].vec[i] = x]

\* ++i, and the return to the caller after lane N-1.
thread_advance(r) ==
    IF r.i + 1 < N THEN [r EXCEPT !.i = r.i + 1]
                   ELSE [r EXCEPT !.i = 0, !.k = r.k + 1]

ThreadFinished(r) == r.k > Len(r.prog)

InitThreads ==
    /\ N \in 1..MaxN
    /\ a = [i \in 0..(N - 1) |-> 0]
    /\ b = [i \in 0..(N - 1) |-> 0]
    /\ pc = "threads"
    /\ op = "none"
    /\ index = 0
    /\ indices = NoVec
    /\ scalar = 0
    /\ target = "none"
    /\ result = NoResult
    /\ c = NoVec
    /\ list = NoVec
    /\ reads = {}
    /\ word = ZeroWord
    /\ arg = ZeroWord
    /\ \E v \in [Threads -> [0..(N - 1) -> LaneValues]], p \in [Threads -> Programs] :
          /\ \A t \in Threads : \A i \in 0..(N - 1) : v[t][i] \in ThreadValues(t)
          /\ th = [t \in Threads |->
                     [vec |-> v[t], init |-> v[t],
                      arg |-> [i \in 0..(N - 1) |-> ThreadArg(t)],
                      prog |-> p[t], k |-> 1, i |-> 0]]

\* One loop iteration of the call thread t is in.
ThreadStep ==
    /\ pc = "threads"
    /\ \E t \in Threads :
          LET r == th[t]
              x == lane_store(r.prog[r.k], r.vec[r.i], r.arg[r.i])
              stored == thread_store(th, t, r.i, x)
          IN /\ ~ThreadFinished(r)
             /\ th' = [stored EXCEPT ![t] = thread_advance(stored[t])]
    /\ UNCHANGED <<N, a, b, pc, op, index, indices, scalar, target, result,
                   c, list, reads, word, arg>>

NextThreads == ThreadStep

SpecThreads == InitThreads /\ [][NextThreads]_vars

(* ---------------------------------------------------------------------- *)
(* next_power_of_two, one statement at a time on a u32 kept as two halves  *)
(* ---------------------------------------------------------------------- *)

\* Largest N * sizeof(T) in bytes whose storage size is computed.
MaxBytes == 512

\* x-- with no decrement at all.
u32_decrement_skipped(w) == w

\* x-- on a u32: 0 wraps to 2^32 - 1.
u32_decrement(w) ==
    IF w.lo > 0 THEN [hi |-> w.hi, lo |-> w.lo - 1]
    ELSE IF w.hi > 0 THEN [hi |-> w.hi - 1, lo |-> Half - 1]
    ELSE [hi |-> Half - 1, lo |-> Half - 1]

\* x++ on a u32: 2^32 - 1 wraps to 0.
u32_increment(w) ==
    IF w.lo + 1 < Half THEN [hi |-> w.hi, lo |-> w.lo + 1]
    ELSE IF w.hi + 1 < Half THEN [hi |-> w.hi + 1, lo |-> 0]
    ELSE [hi |-> 0, lo |-> 0]

\* x >> k for 1 <= k <= 16.
u32_shift_right(w, k) ==
    [hi |-> w.hi \div (2 ^ k),
     lo |-> (w.lo \div (2 ^ k)) + (w.hi % (2 ^ k)) * (2 ^ (16 - k))]

\* x | y on u32 values.
u32_or(w, v) == [hi |-> bitwise("or", w.hi, v.hi, 16),
                 lo |-> bitwise("or", w.lo, v.lo, 16)]

\* Arguments of the calls: every size from 0 to MaxBytes, and words around
\* 2^16, 2^30, 2^31 and 2^32.
PowInputs ==
    { [hi |-> 0, lo |-> n] : n \in 0..MaxBytes }
    \cup { [hi |-> 0, lo |-> Half - 1], [hi |-> 1, lo |-> 0], [hi |-> 1, lo |-> 1],
           [hi |-> 3, lo |-> 5],
           [hi |-> Half \div 4, lo |-> 0], [hi |-> Half \div 4, lo |-> 1],
           [hi |-> (Half \div 2) - 1, lo |-> Half - 1],
           [hi |-> Half \div 2, lo |-> 0], [hi |-> Half \div 2, lo |-> 1],
           [hi |-> Half - 1, lo |-> Half - 1] }

InitPow2 ==
    /\ N = 1
    /\ a = [i \in 0..0 |-> 0]
    /\ b = [i \in 0..0 |-> 0]
    /\ pc = "pow2"
    /\ op = "next_power_of_two"
    /\ index = 0
    /\ indices = NoVec
    /\ scalar = 0
    /\ target = "none"
    /\ th = NoThreads
    /\ result = NoResult
    /\ c = NoVec
    /\ list = NoVec
    /\ reads = {}
    /\ arg \in PowInputs
    /\ word = arg

\* The next statement of the body; index counts the statements done.
Pow2Statement(w) ==
    /\ pc = "pow2"
    /\ word' = w
    /\ index' = index + 1
    /\ UNCHANGED <<N, a, b, pc, op, indices, scalar, target, th, result,
                   c, list, reads, arg>>

Pow2Decrement == index = 0 /\ Pow2Statement(u32_decrement(word))

\* x |= x >> 1, >> 2, >> 4, >> 8, >> 16.
Pow2OrShift ==
    /\ index \in 1..5
    /\ Pow2Statement(u32_or(word, u32_shift_right(word, 2 ^ (index - 1))))

Pow2Increment == index = 6 /\ Pow2Statement(u32_increment(word))

Pow2Return ==
    /\ pc = "pow2"
    /\ index = 7
    /\ pc' = "returned"
    /\ result' = U32Result(word)
    /\ UNCHANGED <<N, a, b, op, index, indices, scalar, target, th,
                   c, list, reads, word, arg>>

NextPow2 == Pow2Decrement \/ Pow2OrShift \/ Pow2Increment \/ Pow2Return

SpecPow2 == InitPow2 /\ [][NextPow2]_vars

(* ---------------------------------------------------------------------- *)
(* Scalar reference arithmetic used to state the properties                *)
(* ---------------------------------------------------------------------- *)

\* The i8 value congruent to z modulo 2^Bits.
ScalarWrap(z) == CHOOSE w \in T : (w - z) % Modulus = 0

\* The quotient of x by y # 0 rounded toward zero: the remainder is smaller
\* in magnitude than y and is zero or has the sign of x.
ScalarQuotient(x, y) ==
    CHOOSE q \in (-Modulus)..Modulus :
        LET r == x - q * y
        IN /\ magnitude(r) < magnitude(y)
           /\ (r = 0 \/ (r < 0) = (x < 0))

RECURSIVE SumDown(_, _)
SumDown(v, k) == IF k < 0 THEN 0 ELSE v[k] + SumDown(v, k - 1)

RECURSIVE ProductDown(_, _)
ProductDown(v, k) == IF k < 0 THEN 1 ELSE ScalarWrap(v[k] * ProductDown(v, k - 1))

Done(name) == pc = "done" /\ op = name

(* ---------------------------------------------------------------------- *)
(* Properties                                                              *)
(* ---------------------------------------------------------------------- *)

\* C1: lane i of a + b, a - b, a * b and (no divisor lane zero) a / b is the
\* scalar result on a[i] and b[i], modulo 2^w, for every lane i < N.
C1_ElementwiseArithmetic ==
    /\ Done("operator+") =>
          /\ DOMAIN result.vec = Lanes
          /\ \A i \in Lanes : result.vec[i] = ScalarWrap(a[i] + b[i])
    /\ Done("operator-") =>
          /\ DOMAIN result.vec = Lanes
          /\ \A i \in Lanes : result.vec[i] = ScalarWrap(a[i] - b[i])
    /\ Done("operator*") =>
          /\ DOMAIN result.vec = Lanes
          /\ \A i \in Lanes : result.vec[i] = ScalarWrap(a[i] * b[i])
    /\ (Done("operator/") /\ \A i \in Lanes : b[i] # 0) =>
          /\ DOMAIN result.vec = Lanes
          /\ \A i \in Lanes :
                result.vec[i] = ScalarWrap(ScalarQuotient(a[i], b[i]))

\* C1 witness: a division whose lane 0 is -128 / -1 (the quotient 128 wraps)
\* next to a lane that divides a positive by a negative value.
C1_Witness ==
    /\ Done("operator/")
    /\ N >= 2
    /\ a[0] = TMin /\ b[0] = -1
    /\ a[1] = 3 /\ b[1] = -1
    /\ result.kind = "vector"
    /\ result.vec[0] = TMin /\ result.vec[1] = -3

\* C2: a == b is true exactly when every lane is equal, a != b is its
\* negation, and a < b, a > b, a <= b, a >= b are true exactly when the
\* scalar comparison holds in every lane.
C2_ComparisonsPerLane ==
    /\ Done("operator==") =>
          (result.kind = "bool" /\ result.flag = (\A i \in Lanes : a[i] = b[i]))
    /\ Done("operator!=") =>
          (result.kind = "bool" /\ result.flag = ~(\A i \in Lanes : a[i] = b[i]))
    /\ Done("operator<") =>
          (result.kind = "bool" /\ result.flag = (\A i \in Lanes : a[i] < b[i]))
    /\ Done("operator>") =>
          (result.kind = "bool" /\ result.flag = (\A i \in Lanes : a[i] > b[i]))
    /\ Done("operator<=") =>
          (result.kind = "bool" /\ result.flag = (\A i \in Lanes : a[i] <= b[i]))
    /\ Done("operator>=") =>
          (result.kind = "bool" /\ result.flag = (\A i \in Lanes : a[i] >= b[i]))

\* C2 witness: a < b evaluated on operands that are smaller in one lane and
\* equal in another, so the answer is false although no lane is greater.
C2_Witness ==
    /\ Done("operator<")
    /\ \E i, j \in Lanes : a[i] < b[i] /\ a[j] = b[j]
    /\ \A i \in Lanes : a[i] <= b[i]
    /\ result.flag = FALSE

ComparisonOps == {"operator==", "operator!=", "operator<", "operator>",
                  "operator<=", "operator>="}

\* The outcome of comparison name in one lane.
LaneOutcome(name, x, y) ==
    CASE name = "operator==" -> x = y
      [] name = "operator!=" -> x # y
      [] name = "operator<"  -> x < y
      [] name = "operator>"  -> x > y
      [] name = "operator<=" -> x <= y
      [] name = "operator>=" -> x >= y

\* C3: a comparison of two N-lane vectors produces a mask of N flags, flag i
\* recording the outcome of the comparison in lane i.
C3_ComparisonYieldsMask ==
    (pc = "done" /\ op \in ComparisonOps) =>
        /\ DOMAIN result.vec = Lanes
        /\ \A i \in Lanes : result.vec[i] = LaneOutcome(op, a[i], b[i])

\* C4: operator[] and extract_element with an index >= N signal a fault
\* instead of returning a value.
C4_OutOfRangeFaults ==
    (pc = "done" /\ op \in {"operator[]", "extract_element"} /\ index >= N) =>
        result.kind = "fault"

\* C5: every operation other than lane access completes with a result and
\* has no error outcome, also integer division with a zero divisor lane and
\* normalize of the all-zero vector.
C5_OtherOperationsTotal ==
    (pc = "done" /\ op \notin {"operator[]", "extract_element"}) =>
        result.kind # "fault"

\* C6: a std::array turned into a vector and back into a std::array equals
\* the original array in every one of its N positions.
C6_ArrayRoundTrip ==
    Done("array_round_trip") =>
        /\ result.kind = "array"
        /\ DOMAIN result.vec = DOMAIN a
        /\ \A i \in DOMAIN a : result.vec[i] = a[i]

\* C6 witness: the round trip of a four-position array whose positions all
\* differ.
C6_Witness ==
    /\ Done("array_round_trip")
    /\ a = FromTuple(<<3, -1, -128, 127>>)
    /\ result.vec = a

\* C7: horizontal_sum() is the sum of all N lanes modulo 2^w; the sum of
\* {1, 2, 3, 4} is 10.
C7_HorizontalSum ==
    Done("horizontal_sum") =>
        /\ result.kind = "scalar"
        /\ result.val = ScalarWrap(SumDown(a, N - 1))
        /\ (a = FromTuple(<<1, 2, 3, 4>>) => result.val = 10)

\* C7 witness: the sum of {1, 2, 3, 4} has been taken and is 10.
C7_Witness ==
    /\ Done("horizontal_sum")
    /\ a = FromTuple(<<1, 2, 3, 4>>)
    /\ result.val = 10

\* C8: min() and max() return one of the lanes, min() a value <= every lane
\* and max() a value >= every lane.
C8_MinMax ==
    /\ Done("min") =>
          /\ result.kind = "scalar"
          /\ \E i \in Lanes : result.val = a[i]
          /\ \A i \in Lanes : result.val <= a[i]
    /\ Done("max") =>
          /\ result.kind = "scalar"
          /\ \E i \in Lanes : result.val = a[i]
          /\ \A i \in Lanes : result.val >= a[i]

\* C8 witness: min() of a vector whose smallest lane is neither the first
\* nor the last one.
C8_Witness ==
    /\ Done("min")
    /\ a = FromTuple(<<3, -1, -128, 127>>)
    /\ result.val = -128

\* The reductions the vector class has (its member functions that fold the
\* lanes into one T).
Reductions == {"min", "max", "horizontal_sum", "avg"}

reduction(name, v) ==
    CASE name = "min" -> min(v)
      [] name = "max" -> max(v)
      [] name = "horizontal_sum" -> horizontal_sum(v)
      [] name = "avg" -> avg(v)

\* C9: the library provides a product reduction: one of its reductions
\* returns the product of all N lanes (24 for {1, 2, 3, 4}).
C9_ProductReductionProvided ==
    \E name \in Reductions : reduction(name, a) = ProductDown(a, N - 1)

\* C10: permute/shuffle with the identity index list 0, 1, ..., N-1 returns
\* a vector equal to the input in every lane.
C10_IdentityPermute ==
    (Done("permute") /\ indices = identity_indices) =>
        /\ DOMAIN result.vec = Lanes
        /\ \A i \in Lanes : result.vec[i] = a[i]

\* C10 witness: the identity permutation applied to a vector whose lanes
\* are not all equal.
C10_Witness ==
    /\ Done("permute")
    /\ indices = identity_indices
    /\ N >= 2
    /\ a[0] # a[1]
    /\ result.vec = a

NonAssigningOps ==
    {"operator+", "operator-", "operator*", "operator/", "operator-()",
     "operator&", "operator|", "operator^", "operator~",
     "operator&&", "operator||", "operator!"} \cup ComparisonOps

ConstMembers ==
    {"min", "max", "horizontal_sum", "avg", "abs", "sign", "length_squared",
     "operator[]", "extract_element", "array_round_trip"}

MutatingOps ==
    {"operator+=", "operator-=", "operator*=", "operator/=", "operator=(scalar)",
     "set_all", "set_zero", "set_one", "insert_element", "normalize",
     "operator&=", "operator|=", "operator^="}

\* C11: a call of a non-assigning operator or of a const member function
\* leaves every lane of both operands unchanged; a compound assignment or a
\* mutating member changes only its left operand or receiver.
C11_OperandsUnchanged ==
    [][ /\ (pc = "ready" /\ op' \in NonAssigningOps \cup ConstMembers) =>
              (a' = a /\ b' = b)
        /\ (pc = "ready" /\ op' \in MutatingOps) =>
              (IF target' = "a" THEN b' = b ELSE a' = a) ]_vars

\* C11 witness: a + b has returned a vector that differs from both operands,
\* which still hold lane values the operands are drawn from.
C11_Witness ==
    /\ Done("operator+")
    /\ N >= 2
    /\ result.vec # a /\ result.vec # b
    /\ \A i \in Lanes : a[i] \in LaneValues /\ b[i] \in LaneValues

Finished == pc \in {"done", "mutated"}

\* C14: after construction from a scalar s, assignment of a scalar s or
\* set_all(s) every lane equals s; after set_zero() every lane is 0 and
\* after set_one() every lane is 1.
C14_Broadcast ==
    /\ Done("vector(scalar)") =>
          \A i \in Lanes : result.vec[i] = scalar
    /\ (Finished /\ op \in {"operator=(scalar)", "set_all"}) =>
          \A i \in Lanes : operand(target)[i] = scalar
    /\ (Finished /\ op = "set_zero") =>
          \A i \in Lanes : operand(target)[i] = 0
    /\ (Finished /\ op = "set_one") =>
          \A i \in Lanes : operand(target)[i] = 1

\* C14 witness: set_all(-128) has run on a four-lane vector.
C14_Witness ==
    /\ Done("set_all")
    /\ N = 4
    /\ scalar = TMin
    /\ target = "a"
    /\ \A i \in Lanes : a[i] = TMin

\* C15: after b is copied from a the two are equal in every lane, and a
\* later mutation of one of them leaves every lane of the other unchanged.
C15_ValueSemantics ==
    [][ /\ pc' = "copied" => (a' = a /\ \A i \in Lanes : b'[i] = a'[i])
        /\ (pc = "copied" /\ pc' = "mutated") =>
              /\ target' = "b" => a' = a
              /\ target' = "a" => b' = b ]_vars

\* C15 witness: the copy has been mutated by insert_element and now differs
\* from the original in the lane that was written.
C15_Witness ==
    /\ pc = "mutated"
    /\ op = "insert_element"
    /\ target = "b"
    /\ b[index] = scalar
    /\ a[index] # scalar
    /\ \A i \in Lanes \ {index} : b[i] = a[i]

\* One whole call applied to a vector, as a single thread runs it.
CallAlone(name, v, w) ==
    CASE name = "operator+=" -> operator_add_assign(v, w)
      [] name = "operator*=" -> operator_mul_assign(v, w)
      [] name = "set_one" -> set_one(v)

RECURSIVE RunAlone(_, _, _, _)
RunAlone(prog, n, v, w) ==
    IF n = 0 THEN v ELSE CallAlone(prog[n], RunAlone(prog, n - 1, v, w), w)

\* C12: whatever the interleaving of the threads' steps, a thread that has
\* finished its program holds the lane values it gets by running the same
\* program alone, and the right operands it only reads are unchanged.
C12_ThreadsIndependent ==
    \A t \in DOMAIN th :
        /\ ThreadFinished(th[t]) =>
              th[t].vec = RunAlone(th[t].prog, Len(th[t].prog), th[t].init, th[t].arg)
        /\ th[t].arg = [i \in Lanes |-> ThreadArg(t)]

\* C12 witness: both threads have finished two-call programs and each has
\* changed its own vector.
C12_Witness ==
    /\ pc = "threads"
    /\ \A t \in DOMAIN th :
          /\ ThreadFinished(th[t])
          /\ Len(th[t].prog) = 2
          /\ th[t].vec # th[t].init
    /\ th["t1"].prog # th["t2"].prog

\* The text the stream must receive for v: "{", the lanes in index order
\* with ", " between neighbours, "}".
ExpectedText(v) ==
    [k \in 1..(2 * N + 1) |->
        IF k = 1 THEN Text("{")
        ELSE IF k = 2 * N + 1 THEN Text("}")
        ELSE IF k % 2 = 0 THEN LaneToken(v[(k \div 2) - 1])
        ELSE Text(", ")]

C17_IndexReturnsLane ==
    (Done("operator[]") /\ index < N) =>
        (result.kind = "f64" /\ result.hi = 0 /\ result.val = a[index])

\* C18: dot_product(a, b) is the sum over all lanes of a[i] * b[i], modulo
\* 2^w, also for vectors with negative lanes.
C18_DotProduct ==
    Done("dot_product") =>
        result.val = ScalarWrap(SumDown([i \in Lanes |-> a[i] * b[i]], N - 1))

\* C19: the non-member length_squared(a) returns the same value as the
\* member a.length_squared().
C19_LengthSquaredAgree ==
    Done("length_squared(a)") => result.val = length_squared(a)

Smaller(x, y) == IF x <= y THEN x ELSE y

Larger(x, y) == IF x >= y THEN x ELSE y

\* C20: lane i of the non-member min(a, b) is the smaller of a[i] and b[i]
\* and lane i of max(a, b) the larger, so both are symmetric in a and b.
C20_MinMaxPerLane ==
    /\ Done("min(a, b)") =>
          \A i \in Lanes : result.vec[i] = Smaller(a[i], b[i])
    /\ Done("max(a, b)") =>
          \A i \in Lanes : result.vec[i] = Larger(a[i], b[i])

\* C21: when b[i] <= c[i] in every lane, every lane i of clamp(a, b, c) lies
\* between b[i] and c[i], also when some lanes of a are below b and others
\* above c.
C21_ClampWithinBounds ==
    (Done("clamp") /\ \A i \in Lanes : b[i] <= c[i]) =>
        /\ result.kind = "vector"
        /\ \A i \in Lanes : b[i] <= result.vec[i] /\ result.vec[i] <= c[i]

\* C22: cross_product(a, b) on three-lane vectors is (a1*b2 - a2*b1,
\* a2*b0 - a0*b2, a0*b1 - a1*b0) of the stored lanes modulo 2^w, so that
\* cross_product(a, b) == -cross_product(b, a) and cross_product(a, a) is zero.
C22_CrossProduct ==
    Done("cross_product") =>
        /\ result.vec[0] = ScalarWrap(a[1] * b[2] - a[2] * b[1])
        /\ result.vec[1] = ScalarWrap(a[2] * b[0] - a[0] * b[2])
        /\ result.vec[2] = ScalarWrap(a[0] * b[1] - a[1] * b[0])
        /\ \A g \in Indeterminate, wrap \in BOOLEAN :
              /\ cross_product(a, a, g, wrap) = [k \in 0..2 |-> 0]
              /\ cross_product(a, b, g, wrap)
                    = operator_neg(cross_product(b, a, g, wrap))

\* The powers of two a u32 can hold.
PowersOfTwo ==
    { [hi |-> 0, lo |-> 2 ^ k] : k \in 0..15 } \cup { [hi |-> 2 ^ k, lo |-> 0] : k \in 0..15 }

WordLeq(w, v) == w.hi < v.hi \/ (w.hi = v.hi /\ w.lo <= v.lo)

ElementSizes == {1, 2, 4, 8}

\* C23: for 1 <= x <= 2^31, next_power_of_two(x) is the smallest power of
\* two >= x, so storage of next_power_of_two(N * sizeof(T)) bytes holds at
\* least N lanes; for x = 0 and for x > 2^31 the result is 0.
C23_NextPowerOfTwo ==
    pc = "returned" =>
        LET r == [hi |-> result.hi, lo |-> result.val]
            top == [hi |-> Half \div 2, lo |-> 0]
        IN IF WordLeq([hi |-> 0, lo |-> 1], arg) /\ WordLeq(arg, top)
             THEN /\ r \in PowersOfTwo
                  /\ WordLeq(arg, r)
                  /\ \A p \in PowersOfTwo : WordLeq(arg, p) => WordLeq(r, p)
                  /\ \A size \in ElementSizes, n \in 1..MaxBytes :
                        (arg.hi = 0 /\ arg.lo = n * size) => r.lo \div size >= n
             ELSE r = ZeroWord

\* C23 witness: the call has returned 2^18 for an argument between 2^17 and
\* 2^18 whose smear crosses the two halves of the word.
C23_Witness ==
    /\ pc = "returned"
    /\ arg = [hi |-> 3, lo |-> 5]
    /\ result.hi = 4 /\ result.val = 0

\* Bit k of the two's complement pattern of an i8 value.
BitAt(v, k) == ((v + Modulus) \div (2 ^ k)) % 2

BitPositions == 0..(Bits - 1)

\* r is the scalar v & w, v | w, v ^ w, ~v.
IsScalarAnd(r, v, w) ==
    r \in T /\ \A k \in BitPositions : BitAt(r, k) = BitAt(v, k) * BitAt(w, k)

IsScalarOr(r, v, w) ==
    r \in T /\ \A k \in BitPositions : (BitAt(r, k) = 1) = (BitAt(v, k) = 1 \/ BitAt(w, k) = 1)

IsScalarXor(r, v, w) ==
    r \in T /\ \A k \in BitPositions : (BitAt(r, k) = 1) = (BitAt(v, k) # BitAt(w, k))

IsScalarNot(r, v) ==
    r \in T /\ \A k \in BitPositions : BitAt(r, k) = 1 - BitAt(v, k)

\* C24: lane i of a & b, a | b, a ^ b and ~a is the scalar bitwise result on
\* lane i, so ~~a == a, a ^ a is zero and ~(a & b) == (~a | ~b); after a &= b,
\* a |= b, a ^= b the left operand equals a & b, a | b, a ^ b of the operands
\* before the call.
C24_Bitwise ==
    [][ pc = "ready" =>
          /\ op' = "operator&" =>
                /\ \A i \in Lanes : IsScalarAnd(result'.vec[i], a[i], b[i])
                /\ operator_not(result'.vec) = operator_or(operator_not(a), operator_not(b))
          /\ op' = "operator|" =>
                \A i \in Lanes : IsScalarOr(result'.vec[i], a[i], b[i])
          /\ op' = "operator^" =>
                /\ \A i \in Lanes : IsScalarXor(result'.vec[i], a[i], b[i])
                /\ operator_xor(a, a) = [i \in Lanes |-> 0]
          /\ op' = "operator~" =>
                /\ \A i \in Lanes : IsScalarNot(result'.vec[i], a[i])
                /\ operator_not(result'.vec) = a
          /\ op' = "operator&=" =>
                (a' = operator_and(a, b) /\ b' = b /\ result'.vec = a')
          /\ op' = "operator|=" =>
                (a' = operator_or(a, b) /\ b' = b /\ result'.vec = a')
          /\ op' = "operator^=" =>
                (a' = operator_xor(a, b) /\ b' = b /\ result'.vec = a') ]_vars

\* C24 witness: ~a has been taken of a four-lane vector holding both
\* extremes of i8.
C24_Witness ==
    /\ Done("operator~")
    /\ a = FromTuple(<<3, -1, -128, 127>>)
    /\ result.vec = FromTuple(<<-4, 0, 127, -128>>)

\* C25: after a op= b (op one of +, -, *, and / with no divisor lane zero)
\* the left operand holds (old left) op right in every lane, the right
\* operand is unchanged and the returned reference denotes the left operand;
\* the same holds for a op= a, with the old a as the right operand.
C25_CompoundAssignment ==
    [][ (pc = "ready" \/ pc = "copied") =>
          /\ (op' \in {"operator+=", "operator-=", "operator*="} /\ target' = "a") =>
                /\ b' = b /\ result'.kind = "vector" /\ result'.vec = a'
                /\ \A i \in Lanes :
                      a'[i] = CASE op' = "operator+=" -> ScalarWrap(a[i] + b[i])
                                [] op' = "operator-=" -> ScalarWrap(a[i] - b[i])
                                [] op' = "operator*=" -> ScalarWrap(a[i] * b[i])
          /\ (op' \in {"operator+=", "operator-=", "operator*="} /\ target' = "b") =>
                /\ a' = a /\ result'.kind = "vector" /\ result'.vec = b'
                /\ \A i \in Lanes :
                      b'[i] = CASE op' = "operator+=" -> ScalarWrap(b[i] + a[i])
                                [] op' = "operator-=" -> ScalarWrap(b[i] - a[i])
                                [] op' = "operator*=" -> ScalarWrap(b[i] * a[i])
          /\ (op' = "operator/=" /\ \A i \in Lanes : b[i] # 0) =>
                /\ b' = b /\ target' = "a"
                /\ result'.kind = "vector" /\ result'.vec = a'
                /\ \A i \in Lanes : a'[i] = ScalarWrap(ScalarQuotient(a[i], b[i]))
          /\ op' \in {aliased("operator+="), aliased("operator-="), aliased("operator*=")} =>
                /\ b' = b /\ target' = "a"
                /\ result'.kind = "vector" /\ result'.vec = a'
                /\ \A i \in Lanes :
                      a'[i] = CASE op' = aliased("operator+=") -> ScalarWrap(a[i] + a[i])
                                [] op' = aliased("operator-=") -> ScalarWrap(a[i] - a[i])
                                [] op' = aliased("operator*=") -> ScalarWrap(a[i] * a[i])
          /\ (op' = aliased("operator/=") /\ \A i \in Lanes : a[i] # 0) =>
                /\ b' = b /\ target' = "a"
                /\ result'.kind = "vector" /\ result'.vec = a'
                /\ \A i \in Lanes : a'[i] = ScalarWrap(ScalarQuotient(a[i], a[i])) ]_vars

\* C25 witness: a /= a has returned on a vector of at least two lanes, none
\* of them zero before the call, and every lane is now 1.
C25_Witness ==
    /\ Done(aliased("operator/="))
    /\ N >= 2
    /\ target = "a"
    /\ result.kind = "vector"
    /\ result.vec = a
    /\ \A i \in Lanes : a[i] = 1

\* C26: after v.insert_element(i, x) with i < N, v.extract_element(i)
\* returns x, also when x is negative, and every lane j # i holds the value
\* it held before the call.
C26_InsertThenExtract ==
    [][ ((pc = "ready" \/ pc = "copied") /\ op' = "insert_element") =>
          LET before == IF target' = "a" THEN a ELSE b
              after == IF target' = "a" THEN a' ELSE b'
              returned == extract_element(after, index', 0)
          IN /\ returned.hi = 0
             /\ returned.lo = scalar'
             /\ \A j \in Lanes \ {index'} : after[j] = before[j] ]_vars

\* C27: lane i of v + s and s + v is v[i] + s, of v * s and s * v is
\* v[i] * s, of v - s is v[i] - s, of s - v is s - v[i], of v / s is v[i] / s
\* and of s / v is s / v[i] (divisors not zero), modulo 2^w; hence
\* v + s == s + v and s - v == -(v - s).
C27_VectorScalar ==
    /\ (Done("operator+(v, s)") \/ Done("operator+(s, v)")) =>
          /\ \A i \in Lanes : result.vec[i] = ScalarWrap(a[i] + scalar)
          /\ operator_eq(operator_add_vs(a, scalar), operator_add_sv(scalar, a))
    /\ (Done("operator*(v, s)") \/ Done("operator*(s, v)")) =>
          \A i \in Lanes : result.vec[i] = ScalarWrap(a[i] * scalar)
    /\ Done("operator-(v, s)") =>
          \A i \in Lanes : result.vec[i] = ScalarWrap(a[i] - scalar)
    /\ Done("operator-(s, v)") =>
          /\ \A i \in Lanes : result.vec[i] = ScalarWrap(scalar - a[i])
          /\ operator_eq(result.vec, operator_neg(operator_sub_vs(a, scalar)))
    /\ (Done("operator/(v, s)") /\ scalar # 0) =>
          /\ result.kind = "vector"
          /\ \A i \in Lanes : result.vec[i] = ScalarWrap(ScalarQuotient(a[i], scalar))
    /\ (Done("operator/(s, v)") /\ \A i \in Lanes : a[i] # 0) =>
          /\ result.kind = "vector"
          /\ \A i \in Lanes : result.vec[i] = ScalarWrap(ScalarQuotient(scalar, a[i]))

\* C27 witness: 3 - v has returned on a vector whose lane 0 is -128, where
\* the difference 131 wraps to -125.
C27_Witness ==
    /\ Done("operator-(s, v)")
    /\ N >= 2
    /\ scalar = 3
    /\ a[0] = TMin
    /\ result.vec[0] = -125

ListOps == {"vector(initializer_list)", "vector(std::vector)",
            "operator=(initializer_list)"}

\* C28: construction and assignment from an initializer list or std::vector
\* of L elements read no position >= L, for every L including L < N; when
\* L >= N, lane i of the result is element i of the source for every i < N.
C28_ListReadsInBounds ==
    (pc = "done" /\ op \in ListOps) =>
        LET L == Cardinality(DOMAIN list)
        IN /\ \A p \in reads : p < L
           /\ L >= N =>
                 /\ result.kind = "vector"
                 /\ \A i \in Lanes : result.vec[i] = list[i]

\* C29: lane i of step(a, b) is 1 when a[i] < b[i] and 0 otherwise,
\* whatever the other lanes hold.
C29_StepPerLane ==
    Done("step") =>
        /\ result.kind = "vector"
        /\ \A i \in Lanes : result.vec[i] = (IF a[i] < b[i] THEN 1 ELSE 0)

\* C30: on vectors of equal lane count, a <= a holds; a <= b and b <= a
\* imply a == b; a <= b and b <= c imply a <= c; a < b implies a <= b,
\* a != b and not b < a; a < b is b > a and a <= b is b >= a.
C30_PartialOrder ==
    Done("ordering") =>
        LET V == {a, b, c}
        IN /\ result.flag = (operator_le(a, b) /\ operator_le(b, c))
           /\ result.flag => operator_le(a, c)
           /\ \A v \in V : operator_le(v, v)
           /\ \A v, w \in V :
                 /\ (operator_le(v, w) /\ operator_le(w, v)) => operator_eq(v, w)
                 /\ operator_lt(v, w) =>
                       (operator_le(v, w) /\ operator_ne(v, w) /\ ~operator_lt(w, v))
                 /\ operator_lt(v, w) = operator_gt(w, v)
                 /\ operator_le(v, w) = operator_ge(w, v)
           /\ \A v, w, z \in V :
                 (operator_le(v, w) /\ operator_le(w, z)) => operator_le(v, z)

\* C30 witness: a <= b and b <= c hold on three different vectors whose
\* lanes are not all strictly ordered.
C30_Witness ==
    /\ Done("ordering")
    /\ N >= 2
    /\ result.flag
    /\ a # b /\ b # c
    /\ ~operator_lt(a, b)
    /\ operator_le(a, c)

====
